---- MODULE Spec2Model ----
(***************************************************************************)
(* Model of the postprocess_data pipeline: variable resolution, vertical   *)
(* reduction, product-dataset building, temporal resampling, dataset       *)
(* composition and the five output strategies of NetCDFProcessor.          *)
(*                                                                         *)
(* Text is modelled as a sequence of tokens: a raw field name is one       *)
(* token, "+" is the separator of a summed expression, a suffix is one     *)
(* token, a unit string is a sequence of one-character tokens.             *)
(***************************************************************************)
EXTENDS Integers, Sequences, FiniteSets, TLC

\* ------------------------------------------------------------------ bounds
NZ == 2          \* number of vertical levels (deptht) of the grid
NC == 2          \* number of horizontal columns of the grid
MaxTime == 2     \* longest raw time axis

Levels == 1..NZ
Cols == 1..NC

\* ------------------------------------------------------------- generic help
Range(s) == {s[i] : i \in DOMAIN s}

Front(s) == SubSeq(s, 1, Len(s) - 1)

RECURSIVE SumFn(_)
SumFn(f) ==
  IF DOMAIN f = {} THEN 0
  ELSE LET x == CHOOSE y \in DOMAIN f : TRUE
       IN f[x] + SumFn([y \in DOMAIN f \ {x} |-> f[y]])

\* outcome of a call: a returned value or a raised exception
Raise == [exc |-> TRUE]
Return(v) == [exc |-> FALSE, val |-> v]

\* a value that is still to come, and one that has come
Unset == [set |-> FALSE]
Set(v) == [set |-> TRUE, val |-> v]

\* --------------------------------------------------------------- raw fields
\* A labelled array with a leading time dimension, an optional vertical
\* dimension 'deptht' and the horizontal columns.
Get(arr, t, k, c) == IF arr.deptht THEN arr.data[t][k][c] ELSE arr.data[t][c]

\* str.split('+')
RECURSIVE SplitFrom(_, _, _)
SplitFrom(s, cur, acc) ==
  IF s = <<>> THEN Append(acc, cur)
  ELSE IF Head(s) = "+" THEN SplitFrom(Tail(s), <<>>, Append(acc, cur))
  ELSE SplitFrom(Tail(s), Append(cur, Head(s)), acc)

Split(var) == SplitFrom(var, <<>>, <<>>)

\* ds[components].to_array().sum("variable"): ds[components] is a mapping
\* keyed by name, so a repeated component is held once; the arrays are
\* broadcast to their common dimensions and summed.
SumArrays(ds, listed) ==
  LET nt == Len(ds.axis.idx)
      deep == \E n \in listed : ds.fields[n].deptht
  IN [deptht |-> deep,
      data |-> IF deep
               THEN [t \in 1..nt |-> [k \in Levels |-> [c \in Cols |->
                       SumFn([n \in listed |-> Get(ds.fields[n], t, k, c)])]]]
               ELSE [t \in 1..nt |-> [c \in Cols |->
                       SumFn([n \in listed |-> Get(ds.fields[n], t, 1, c)])]]]

\* the unit string of the first component with its last character cut off
\* and "2" appended (units[:-1] + "2")
SummedUnits(u) == Front(u) \o <<"2">>

\* _process_variable, first half: the field and the units of an expression
ResolveVariable(ds, var) ==
  IF "+" \in Range(var)
  THEN LET components == Split(var)
           listed == Range(components)
       IN IF \E n \in listed : n \notin DOMAIN ds.fields
          THEN Raise                                    \* KeyError
          ELSE IF ~ds.fields[components[1]].hasUnits
          THEN Raise                                    \* AttributeError
          ELSE Return([field |-> SumArrays(ds, listed),
                       units |-> SummedUnits(ds.fields[components[1]].units)])
  ELSE IF var \notin DOMAIN ds.fields
       THEN Raise                                       \* KeyError
       ELSE IF ~ds.fields[var].hasUnits
       THEN Raise                                       \* AttributeError
       ELSE Return([field |-> [deptht |-> ds.fields[var].deptht,
                               data |-> ds.fields[var].data],
                    units |-> ds.fields[var].units])

\* --------------------------------------------------------------- mask file
\* _generate_mask: open the mask file (every call opens it again), rename
\* its vertical dimension and pick the arrays of the reduction type.
GenerateMask(grd, var_type) ==
  IF ~grd.openable THEN Raise                           \* open_dataset fails
  ELSE IF var_type = "bottom" THEN Return(grd.floor)
  ELSE Return(<<grd.tmask, grd.e3t_0>>)

\* a reduction that takes the deepest level of every column, whatever the mask
BottomReduceAlt(arr, mask) ==
  [t \in DOMAIN arr.data |-> [c \in Cols |-> arr.data[t][NZ][c]]]

\* (summed_var * mask).sum('deptht')
BottomReduce(arr, mask) ==
  [t \in DOMAIN arr.data |-> [c \in Cols |->
     SumFn([k \in Levels |-> arr.data[t][k][c] * mask[k][c]])]]

\* a reduction that sums the masked levels without weighting them
IntegratedReduceAlt(arr, mask, cell_thick) ==
  [t \in DOMAIN arr.data |-> [c \in Cols |->
     SumFn([k \in Levels |-> arr.data[t][k][c] * mask[k][c]])]]

\* ((summed_var * cell_thick) * mask).sum('deptht')
IntegratedReduce(arr, mask, cell_thick) ==
  [t \in DOMAIN arr.data |-> [c \in Cols |->
     SumFn([k \in Levels |-> (arr.data[t][k][c] * cell_thick[k][c]) * mask[k][c]])]]

\* summed_var.isel(deptht=0)
SurfaceReduce(arr) ==
  [t \in DOMAIN arr.data |-> [c \in Cols |-> arr.data[t][1][c]]]

\* what _process_variable hands back: a (field, units) pair on the branches
\* of a field with a vertical dimension, the bare field otherwise
Pair(data, units) == Return([tuple |-> TRUE, var |-> data, units |-> units])
Bare(data) == Return([tuple |-> FALSE, var |-> data])

ProcessVariable(ds, var, suffix, grd) ==
  LET r == ResolveVariable(ds, var)
  IN IF r.exc THEN Raise
     ELSE IF r.val.field.deptht
     THEN IF suffix = "_integrated"
          THEN LET m == GenerateMask(grd, "integrated")
               IN IF m.exc THEN Raise
                  ELSE Pair(IntegratedReduce(r.val.field, m.val[1], m.val[2]), r.val.units)
          ELSE IF suffix = "_bottom"
          THEN LET m == GenerateMask(grd, "bottom")
               IN IF m.exc THEN Raise
                  ELSE Pair(BottomReduce(r.val.field, m.val), r.val.units)
          ELSE Pair(SurfaceReduce(r.val.field), r.val.units)
     ELSE Bare(r.val.field.data)

\* processed_var, units = self._process_variable(...): a pair unpacks into
\* its two members; a bare array is iterated along its first dimension
\* (time), which unpacks only when that dimension has exactly two entries.
Unpack(ret) ==
  IF ret.tuple
  THEN Return([var |-> [timed |-> TRUE, data |-> ret.var],
               units |-> [kind |-> "str", s |-> ret.units]])
  ELSE IF Len(ret.var) = 2
       THEN Return([var |-> [timed |-> FALSE, data |-> ret.var[1]],
                    units |-> [kind |-> "array", a |-> ret.var[2]]])
       ELSE Raise                                       \* ValueError

\* OptionsReader.get_variable_name
GetVariableName(mapping, var) ==
  IF var \in DOMAIN mapping THEN mapping[var] ELSE var

\* the try/except of the loop of _create_dataset
TryProcess(ds, var, suffix, grd) ==
  LET r == ProcessVariable(ds, var, suffix, grd)
  IN IF r.exc THEN Raise ELSE Unpack(r.val)

\* one iteration of the loop of _create_dataset
LoopBody(ds, var, suffix, grd, mapping, new_vars) ==
  LET u == TryProcess(ds, var, suffix, grd)
  IN IF u.exc THEN new_vars
     ELSE ((GetVariableName(mapping, var) \o <<suffix>>)
             :> [timed |-> u.val.var.timed, data |-> u.val.var.data,
                 units |-> u.val.units]) @@ new_vars

RECURSIVE CreateVars(_, _, _, _, _, _)
CreateVars(ds, vars_dict, suffix, grd, mapping, new_vars) ==
  IF vars_dict = <<>> THEN new_vars
  ELSE CreateVars(ds, Tail(vars_dict), suffix, grd, mapping,
                  LoopBody(ds, Head(vars_dict), suffix, grd, mapping, new_vars))

NoVars == [n \in {} |-> 0]

\* _create_dataset
CreateDataset(ds, vars_dict, suffix, grd, mapping) ==
  CreateVars(ds, vars_dict, suffix, grd, mapping, NoVars)

\* the calls of _generate_mask that processing one variable makes: one on
\* each of the two branches that reduce with a mask
OpensFor(ds, var, suffix) ==
  IF /\ suffix \in {"_bottom", "_integrated"}
     /\ ~ResolveVariable(ds, var).exc
     /\ ResolveVariable(ds, var).val.field.deptht
  THEN 1 ELSE 0

\* the calls of _generate_mask that one call of _create_dataset makes
RECURSIVE MaskOpens(_, _, _)
MaskOpens(ds, vars_dict, suffix) ==
  IF vars_dict = <<>> THEN 0
  ELSE OpensFor(ds, Head(vars_dict), suffix) + MaskOpens(ds, Tail(vars_dict), suffix)

\* ------------------------------------------------------- product datasets
\* Past _create_dataset a dataset is followed by its variables (name, time
\* dependence, units, origin of the values), its time axis and the size of
\* its horizontal grid; the values themselves are named by their origin.
NoAxis == [kind |-> "none", name |-> "", idx |-> <<>>]

\* xr.Dataset()
EmptyDS == [vars |-> NoVars, axis |-> NoAxis, grid |-> 0]

\* bool(dataset): a dataset is true when it has a data variable
NonEmpty(d) == DOMAIN d.vars # {}

RECURSIVE SortSet(_)
SortSet(S) ==
  IF S = {} THEN <<>>
  ELSE LET lo == CHOOSE x \in S : \A y \in S : x <= y
       IN <<lo>> \o SortSet(S \ {lo})

Stamps(d) == IF d.axis.kind = "dim" THEN Range(d.axis.idx) ELSE {}

\* two datasets hold different values for one variable at one time
Conflict(d, e) ==
  \E n \in DOMAIN d.vars \cap DOMAIN e.vars :
    /\ d.vars[n] # e.vars[n]
    /\ \/ Stamps(d) \cap Stamps(e) # {}
       \/ ~d.vars[n].timed
       \/ ~e.vars[n].timed

\* the inputs can be aligned and merged: one horizontal grid, one name for
\* the time axis, no variable with two values at one place
Mergeable(list) ==
  \A i, j \in DOMAIN list :
    /\ list[i].grid = list[j].grid
    /\ (list[i].axis.kind = "dim" /\ list[j].axis.kind = "dim")
         => list[i].axis.name = list[j].axis.name
    /\ ~Conflict(list[i], list[j])

RECURSIVE UnionVars(_)
UnionVars(list) ==
  IF list = <<>> THEN NoVars ELSE Head(list).vars @@ UnionVars(Tail(list))

UnionAxis(list) ==
  LET dims == {i \in DOMAIN list : list[i].axis.kind = "dim"}
      some == {i \in DOMAIN list : list[i].axis.kind # "none"}
  IN IF dims # {}
     THEN [kind |-> "dim",
           name |-> list[CHOOSE i \in dims : TRUE].axis.name,
           idx |-> SortSet(UNION {Range(list[i].axis.idx) : i \in dims})]
     ELSE IF some # {} THEN list[CHOOSE i \in some : TRUE].axis
     ELSE NoAxis

\* xr.merge(datasets): outer join of the indexes, union of the variables;
\* raises on inputs that cannot be aligned or that conflict
Merge(list) ==
  IF list = <<>> THEN Return(EmptyDS)
  ELSE IF ~Mergeable(list) THEN Raise
  ELSE Return([vars |-> UnionVars(list), axis |-> UnionAxis(list), grid |-> list[1].grid])

\* xr.combine_by_coords(merged_ds) with a Dataset as its argument: an
\* argument that is false gives an empty dataset; otherwise the argument is
\* iterated as the collection of datasets to combine, and iterating a
\* Dataset yields the names of its variables, which are not datasets.
CombineByCoordsOfDataset(merged_ds) ==
  IF ~NonEmpty(merged_ds) THEN Return(EmptyDS)
  ELSE Raise                                            \* AttributeError

\* xr.combine_by_coords(datasets) with a list of datasets
CombineByCoords(list) == Merge(list)

\* _combine_datasets without its filter
CombineDatasetsUnfiltered(datasets) ==
  IF Len(datasets) = 1 THEN Return(datasets[1])
  ELSE LET merged_ds == Merge(datasets)
       IN IF merged_ds.exc THEN Return(EmptyDS)
          ELSE LET combined_ds == CombineByCoordsOfDataset(merged_ds.val)
               IN IF combined_ds.exc THEN Return(EmptyDS) ELSE combined_ds

\* _combine_datasets without its except clause
CombineDatasetsUncaught(datasets) ==
  LET kept == SelectSeq(datasets, NonEmpty)
  IN IF Len(kept) = 1 THEN Return(kept[1])
     ELSE LET merged_ds == Merge(kept)
          IN IF merged_ds.exc THEN Raise
             ELSE CombineByCoordsOfDataset(merged_ds.val)

\* _combine_datasets
CombineDatasets(datasets) ==
  LET kept == SelectSeq(datasets, NonEmpty)
  IN IF Len(kept) = 1 THEN Return(kept[1])
     ELSE LET merged_ds == Merge(kept)
          IN IF merged_ds.exc THEN Return(EmptyDS)      \* except Exception
             ELSE LET combined_ds == CombineByCoordsOfDataset(merged_ds.val)
                  IN IF combined_ds.exc THEN Return(EmptyDS)   \* except Exception
                     ELSE combined_ds

\* ------------------------------------------------------------ time stamps
\* A time stamp is a day number in a calendar of equal months and years.
DaysPerMonth == 2
MonthsPerYear == 2

MonthOf(t) == t \div DaysPerMonth
MonthEnd(m) == m * DaysPerMonth + DaysPerMonth - 1
YearOf(t) == t \div (DaysPerMonth * MonthsPerYear)

\* xr.Dataset(new_vars) as the later stages see it
Outline(vars_, raw, src) ==
  [vars |-> [n \in DOMAIN vars_ |-> [timed |-> vars_[n].timed,
                                     units |-> vars_[n].units,
                                     src |-> src]],
   axis |-> IF DOMAIN vars_ = {} THEN NoAxis
            ELSE IF \E n \in DOMAIN vars_ : vars_[n].timed
            THEN [kind |-> "dim", name |-> raw.axis.name, idx |-> raw.axis.idx]
            ELSE [kind |-> "scalar", name |-> raw.axis.name, idx |-> <<>>],
   grid |-> raw.grid]

\* the month ends from the month of the first stamp to that of the last
MonthEnds(idx) ==
  [i \in 1..(MonthOf(idx[Len(idx)]) - MonthOf(idx[1]) + 1) |-> MonthEnd(MonthOf(idx[1]) + i - 1)]

\* every day from the first stamp to the last
Days(idx) == [i \in 1..(idx[Len(idx)] - idx[1] + 1) |-> idx[1] + i - 1]

\* _interpolate_time: a dataset that is true is resampled along the
\* dimension 'time_counter' by a time unit of 'month' or 'day'; anything
\* else is handed back as it is.  Resampling needs that dimension and a
\* stamp on it.
InterpolateTime(d, time_unit) ==
  IF NonEmpty(d) /\ time_unit \in {"month", "day"}
  THEN IF d.axis.kind # "dim" \/ d.axis.name # "time_counter" \/ d.axis.idx = <<>>
       THEN Raise
       ELSE Return([vars |-> [n \in DOMAIN d.vars |->
                               [d.vars[n] EXCEPT !.src = <<d.vars[n].src, time_unit>>]],
                    axis |-> [d.axis EXCEPT !.idx = IF time_unit = "month"
                                                    THEN MonthEnds(d.axis.idx)
                                                    ELSE Days(d.axis.idx)],
                    grid |-> d.grid])
  ELSE Return(d)

\* ---------------------------------------------------------- output files
FileName(kind, key, year, var) == [kind |-> kind, key |-> key, year |-> year, var |-> var]

NoYear == 0 - 1

OptionsIni == FileName("options.ini", "", NoYear, <<>>)

SaveCall(d, file) == [op |-> "save", ds |-> d, file |-> file]

\* an exception raised by the code of a strategy between two writes
StrategyError == [op |-> "raise", ds |-> EmptyDS, file |-> OptionsIni]

ProductTypes == <<"surface", "bottom", "integrated">>

VarTypes == <<"phys", "bio">>

RECURSIVE SeqOfSet(_)
SeqOfSet(S) ==
  IF S = {} THEN <<>>
  ELSE LET x == CHOOSE y \in S : TRUE IN <<x>> \o SeqOfSet(S \ {x})

RECURSIVE Flatten(_)
Flatten(ss) == IF ss = <<>> THEN <<>> ELSE Head(ss) \o Flatten(Tail(ss))

\* dataset[var]: one variable with the coordinates it depends on
SelectVar(d, n) ==
  [vars |-> [m \in {n} |-> d.vars[n]],
   axis |-> IF d.vars[n].timed \/ d.axis.kind = "none" THEN d.axis
            ELSE [kind |-> "scalar", name |-> d.axis.name, idx |-> <<>>],
   grid |-> d.grid]

\* _save_by_variable: the calls of _save_netcdf it makes, in order
SaveByVariable(combined) ==
  Flatten([v \in 1..2 |-> Flatten([p \in 1..3 |->
    LET d == combined[ProductTypes[p]][VarTypes[v]]
        names == SeqOfSet(DOMAIN d.vars)
    IN [i \in 1..Len(names) |->
          SaveCall(SelectVar(d, names[i]),
                   FileName(ProductTypes[p], VarTypes[v], NoYear, names[i]))]])])

\* _save_by_variable_type
SaveByVariableType(combined) ==
  Flatten([v \in 1..2 |-> [p \in 1..3 |->
    SaveCall(combined[ProductTypes[p]][VarTypes[v]],
             FileName(ProductTypes[p], VarTypes[v], NoYear, <<>>))]])

\* _save_by_phys_bio
SaveByPhysBio(combined) ==
  Flatten([v \in 1..2 |->
    LET all3 == [p \in 1..3 |-> combined[ProductTypes[p]][VarTypes[v]]]
        kept == SelectSeq(all3, NonEmpty)
    IN IF kept = <<>> THEN <<>>
       ELSE IF CombineByCoords(kept).exc THEN <<StrategyError>>
       ELSE <<SaveCall(CombineByCoords(kept).val,
                       FileName("processed", VarTypes[v], NoYear, <<>>))>>])

\* combined_ds.update(ds): the variables of ds replace those of the same
\* name, the indexes already in combined_ds stay
Update(acc, d) ==
  IF ~NonEmpty(d) THEN Return(acc)
  ELSE IF ~NonEmpty(acc) THEN Return(d)
  ELSE IF acc.grid # d.grid THEN Raise
  ELSE Return([vars |-> d.vars @@ acc.vars, axis |-> acc.axis, grid |-> acc.grid])

RECURSIVE UpdateAll(_, _)
UpdateAll(acc, list) ==
  IF list = <<>> THEN Return(acc)
  ELSE LET r == Update(acc, Head(list))
       IN IF r.exc THEN Raise ELSE UpdateAll(r.val, Tail(list))

\* _save_all
SaveAll(combined) ==
  LET r == UpdateAll(EmptyDS, Flatten([p \in 1..3 |-> [v \in 1..2 |->
                                 combined[ProductTypes[p]][VarTypes[v]]]]))
  IN IF r.exc THEN <<StrategyError>>
     ELSE <<SaveCall(r.val, FileName("processed_output", "", NoYear, <<>>))>>

\* the dataset has a coordinate 'time' to group or select by
HasTime(d) == d.axis.kind = "dim" /\ d.axis.name = "time"

\* ds.sel(time=str(year)): the entries of the year; raises without the
\* coordinate and for a year outside the span of the index
Sel(d, year) ==
  IF ~HasTime(d) \/ d.axis.idx = <<>> THEN Raise
  ELSE IF year < YearOf(d.axis.idx[1]) \/ year > YearOf(d.axis.idx[Len(d.axis.idx)])
  THEN Raise
  ELSE Return([d EXCEPT !.axis.idx = SelectSeq(d.axis.idx, LAMBDA t : YearOf(t) = year)])

\* _save_yearly: the years are those of the physical surface dataset; every
\* year selects from all six datasets before its writes
SaveYearly(combined) ==
  LET first == combined["surface"]["phys"]
  IN IF ~HasTime(first) \/ first.axis.idx = <<>> THEN <<StrategyError>>
     ELSE LET years == SortSet({YearOf(t) : t \in Range(first.axis.idx)})
          IN Flatten([y \in 1..Len(years) |->
               IF \E p \in 1..3, v \in 1..2 :
                    Sel(combined[ProductTypes[p]][VarTypes[v]], years[y]).exc
               THEN <<StrategyError>>
               ELSE Flatten([p \in 1..3 |-> [v \in 1..2 |->
                      SaveCall(Sel(combined[ProductTypes[p]][VarTypes[v]], years[y]).val,
                               FileName(ProductTypes[p], VarTypes[v], years[y], <<>>))]])])

SaveOptions == {"yearly", "by_variable", "by_variable_type", "by_phys_bio", "all"}

\* getattr(self, f"_save_{save_option}") and the calls the method makes
SaveFunc(save_option, combined) ==
  IF save_option = "yearly" THEN SaveYearly(combined)
  ELSE IF save_option = "by_variable" THEN SaveByVariable(combined)
  ELSE IF save_option = "by_variable_type" THEN SaveByVariableType(combined)
  ELSE IF save_option = "by_phys_bio" THEN SaveByPhysBio(combined)
  ELSE SaveAll(combined)

\* a lookup that takes every name for a strategy
GetSaveFuncAny(save_option) == "strategy"

\* save_func = getattr(self, f"_save_{save_option}") and its call with the
\* three dictionaries: a strategy runs; 'netcdf' names _save_netcdf, which
\* takes two arguments; 'output' names _save_output itself, which calls
\* itself again without end; any other name is no attribute
GetSaveFunc(save_option) ==
  IF save_option \in SaveOptions THEN "strategy"
  ELSE IF save_option = "netcdf" THEN "TypeError"
  ELSE IF save_option = "output" THEN "RecursionError"
  ELSE "AttributeError"

\* _save_netcdf without its else branch: a time_counter of any length is written
SaveNetcdfAlways(d) ==
  IF d.axis.kind = "none" \/ d.axis.name # "time_counter" THEN "raise"
  ELSE IF d.axis.kind = "scalar" THEN "raise"
  ELSE "write"

\* _save_netcdf, len(ds.time_counter) > 0: "write", "skip", or "raise" when
\* the dataset has no time_counter or one without a length
SaveNetcdf(d) ==
  IF d.axis.kind = "none" \/ d.axis.name # "time_counter" THEN "raise"   \* AttributeError
  ELSE IF d.axis.kind = "scalar" THEN "raise"                            \* TypeError
  ELSE IF Len(d.axis.idx) > 0 THEN "write"
  ELSE "skip"

\* ----------------------------------------------------------- configuration
\* A configuration file is a function from section names to functions from
\* option names to the text after "=", continuation lines included. Text is
\* a sequence of tokens: " ", "\t" and "\n" are white space, any other token
\* stands for a run of other characters. No text holds a "%", so that the
\* interpolation of ConfigParser.get leaves every value as it is.
IsSpace(t) == t \in {" ", "\t", "\n"}

\* str.strip
RECURSIVE LStrip(_)
LStrip(s) == IF s # <<>> /\ IsSpace(Head(s)) THEN LStrip(Tail(s)) ELSE s

RECURSIVE RStrip(_)
RStrip(s) == IF s # <<>> /\ IsSpace(s[Len(s)]) THEN RStrip(Front(s)) ELSE s

Strip(s) == RStrip(LStrip(s))

\* str.split('\n'): the pieces between the line breaks, empty ones included
RECURSIVE SplitLines(_)
SplitLines(s) ==
  IF \A i \in DOMAIN s : s[i] # "\n" THEN <<s>>
  ELSE LET i == CHOOSE j \in DOMAIN s : s[j] = "\n" /\ \A k \in 1..(j - 1) : s[k] # "\n"
       IN <<SubSeq(s, 1, i - 1)>> \o SplitLines(SubSeq(s, i + 1, Len(s)))

\* str.split(): the runs of tokens between white space, none of them empty
RECURSIVE SplitWords(_)
SplitWords(s) ==
  LET t == LStrip(s)
  IN IF t = <<>> THEN <<>>
     ELSE LET n == IF \A i \in DOMAIN t : ~IsSpace(t[i]) THEN Len(t)
                   ELSE (CHOOSE j \in DOMAIN t :
                           IsSpace(t[j]) /\ \A k \in 1..(j - 1) : ~IsSpace(t[k])) - 1
          IN <<SubSeq(t, 1, n)>> \o SplitWords(SubSeq(t, n + 1, Len(t)))

\* sep.join(list)
RECURSIVE JoinWith(_, _)
JoinWith(list, sep) ==
  IF list = <<>> THEN <<>>
  ELSE IF Len(list) = 1 THEN list[1]
  ELSE list[1] \o <<sep>> \o JoinWith(Tail(list), sep)

StripAll(list) == [i \in DOMAIN list |-> Strip(list[i])]

\* the value ConfigParser.read keeps for an option: every line stripped, the
\* lines joined by line breaks, trailing white space dropped
ConfigValue(text) == RStrip(JoinWith(StripAll(SplitLines(text)), "\n"))

\* ConfigParser.read
ConfigRead(file) ==
  [sec \in DOMAIN file |-> [opt \in DOMAIN file[sec] |-> ConfigValue(file[sec][opt])]]

\* the text ConfigParser.write puts after "=": a line break of the value is
\* followed by a tab
RECURSIVE ConfigText(_)
ConfigText(value) ==
  IF value = <<>> THEN <<>>
  ELSE IF Head(value) = "\n" THEN <<"\n", "\t">> \o ConfigText(Tail(value))
  ELSE <<Head(value)>> \o ConfigText(Tail(value))

\* ConfigParser.write
ConfigWrite(config) ==
  [sec \in DOMAIN config |-> [opt \in DOMAIN config[sec] |-> ConfigText(config[sec][opt])]]

\* ConfigParser.get without fallback: NoSectionError or NoOptionError when
\* the section or the option is missing
Has(config, section, option) ==
  section \in DOMAIN config /\ option \in DOMAIN config[section]

\* ConfigParser.get(section, option, fallback='')
GetFallback(config, section, option) ==
  IF Has(config, section, option) THEN config[section][option] ELSE <<>>

\* [f.strip() for f in value.split('\n') if f.strip()]
PatternList(value) ==
  SelectSeq(StripAll(SplitLines(value)), LAMBDA f : f # <<>>)

\* the two variable lists of a product type
VarsSection(config, section) ==
  [phys_vars |-> SplitWords(GetFallback(config, section, "phys_vars")),
   bio_vars |-> SplitWords(GetFallback(config, section, "bio_vars"))]

\* the options of PARAMS that __init__ reads without fallback
Required ==
  {"model_type", "model_path", "output_path", "mask_path", "phys_files", "bio_files",
   "time_unit", "save_option"}

\* OptionsReader.__init__
OptionsReader(file) ==
  LET config == ConfigRead(file)
  IN IF \E opt \in Required : ~Has(config, "PARAMS", opt) THEN Raise
     ELSE Return(
       [model_type |-> config["PARAMS"]["model_type"],
        model_path |-> config["PARAMS"]["model_path"],
        output_path |-> config["PARAMS"]["output_path"],
        mask_path |-> config["PARAMS"]["mask_path"],
        phys_files |-> PatternList(config["PARAMS"]["phys_files"]),
        bio_files |-> PatternList(config["PARAMS"]["bio_files"]),
        time_unit |-> config["PARAMS"]["time_unit"],
        save_option |-> config["PARAMS"]["save_option"],
        surface_vars |-> VarsSection(config, "SURFACE"),
        integrated_vars |-> VarsSection(config, "INTEGRATED"),
        bottom_vars |-> VarsSection(config, "BOTTOM"),
        mapping |-> IF "MAPPING" \in DOMAIN config THEN config["MAPPING"] ELSE NoVars])

\* a section of write_to_file with the two variable lists of a product type
VarsOut(vs) ==
  [opt \in {"phys_vars", "bio_vars"} |-> JoinWith(vs[opt], " ")]

\* the PARAMS section of write_to_file
ParamsOut(o) ==
  [opt \in Required \ {"model_type"} |->
     IF opt = "model_path" THEN o.model_path
     ELSE IF opt = "output_path" THEN o.output_path
     ELSE IF opt = "mask_path" THEN o.mask_path
     ELSE IF opt = "phys_files" THEN JoinWith(o.phys_files, "\n")
     ELSE IF opt = "bio_files" THEN JoinWith(o.bio_files, "\n")
     ELSE IF opt = "time_unit" THEN o.time_unit
     ELSE o.save_option]

\* OptionsReader.write_to_file: the file it writes
WriteToFile(o) ==
  ConfigWrite(
    [sec \in {"PARAMS", "SURFACE", "INTEGRATED", "BOTTOM"}
              \cup (IF o.mapping # NoVars THEN {"MAPPING"} ELSE {}) |->
       IF sec = "PARAMS" THEN ParamsOut(o)
       ELSE IF sec = "SURFACE" THEN VarsOut(o.surface_vars)
       ELSE IF sec = "INTEGRATED" THEN VarsOut(o.integrated_vars)
       ELSE IF sec = "BOTTOM" THEN VarsOut(o.bottom_vars)
       ELSE o.mapping])

\* ------------------------------------------------ inputs of the build runs
MaxVars == 2     \* longest variable list of a product type

VarPool == { <<"a">>, <<"b">>, <<"s">>,
             <<"a", "+", "b">>, <<"b", "+", "a">>, <<"a", "+", "a">>,
             <<"a", "+", "x">>, <<"a", "+">> }

VarLists == UNION {[1..n -> VarPool] : n \in 0..MaxVars}

Suffixes == {"_surface", "_bottom", "_integrated"}

\* the MAPPING section: absent, or sending two raw names to one output name
Mappings == { NoVars, (<<"a">> :> <<"T">>) @@ (<<"b">> :> <<"T">>) }

\* a raw field: values chosen to tell fields, times, levels and columns apart
FieldA(nt) == [t \in 1..nt |-> [k \in Levels |-> [c \in Cols |-> 100 * t + 10 * k + c]]]
FieldB(nt) == [t \in 1..nt |-> [k \in Levels |-> [c \in Cols |-> 1000 + 200 * t + 20 * k + 2 * c]]]
FieldS(nt) == [t \in 1..nt |-> [c \in Cols |-> 5000 + 10 * t + c]]

UnitsOf == [absent |-> <<>>, nounits |-> <<>>, empty |-> <<>>,
            ms |-> <<"m", "s">>, K |-> <<"K">>, m |-> <<"m">>]

MkField(state, deep, data) ==
  [deptht |-> deep, hasUnits |-> state # "nounits", units |-> UnitsOf[state], data |-> data]

\* the dataset of one input pattern as open_mfdataset returns it: "a" and
\* "b" have a vertical dimension, "s" is a surface-only field
MkRaw(sa, sb, ss, idx, tname, grid) ==
  [fields |-> [n \in ( (IF sa = "absent" THEN {} ELSE {<<"a">>})
                 \cup (IF sb = "absent" THEN {} ELSE {<<"b">>})
                 \cup (IF ss = "absent" THEN {} ELSE {<<"s">>}) ) |->
                IF n = <<"a">> THEN MkField(sa, TRUE, FieldA(Len(idx)))
                ELSE IF n = <<"b">> THEN MkField(sb, TRUE, FieldB(Len(idx)))
                ELSE MkField(ss, FALSE, FieldS(Len(idx)))],
   axis |-> [name |-> tname, idx |-> idx],
   grid |-> grid]

RawDatasets ==
  { MkRaw(sa, sb, ss, [t \in 1..nt |-> t], "time_counter", 1) :
      sa \in {"absent", "nounits", "empty", "ms"},
      sb \in {"absent", "K"},
      ss \in {"absent", "nounits", "m"},
      nt \in 1..MaxTime }

Masks == [Levels -> [Cols -> {0, 1}]]

\* masks that are the same in every column
FlatMasks == {[k \in Levels |-> [c \in Cols |-> m[k]]] : m \in [Levels -> {0, 1}]}

Ones == [k \in Levels |-> [c \in Cols |-> 1]]
Thickness == [k \in Levels |-> [c \in Cols |-> k + c]]

MkGrd(open, floor, tmask) ==
  [openable |-> open, floor |-> floor, tmask |-> tmask, e3t_0 |-> Thickness]

\* the mask file next to the product type it is read for: a file that does
\* not open or one whose masks are 1 everywhere, for each product type
ListCases ==
  {<<sfx, MkGrd(open, Ones, Ones)>> : sfx \in Suffixes, open \in BOOLEAN}

\* every bottom mask and every column-independent grid mask
MaskCases ==
  {<<"_bottom", MkGrd(TRUE, m, Ones)>> : m \in Masks}
  \cup {<<"_integrated", MkGrd(TRUE, Ones, m)>> : m \in FlatMasks}

\* the variable lists the masks are tried on
MaskLists == { <<<<"a">>>>, <<<<"a", "+", "b">>>> }

\* ------------------------------------------------------------------ state
VARIABLES
  mode,        \* which operation the behaviour exercises
  ds,          \* _create_dataset: the raw dataset
  grd,         \* the mask file
  vars_dict,   \* _create_dataset: the variable list
  suffix,      \* _create_dataset: the product suffix
  mapping,     \* options.mapping
  pos,         \* _create_dataset: number of variables already looped over
  new_vars,    \* _create_dataset: the dictionary being filled
  product,     \* _create_dataset: the returned dataset, once returned
  datasets,    \* _combine_datasets: the list handed in
  outcome,     \* _combine_datasets: how the call ended, once it has
  options,     \* process_files: the options read from the configuration
  time_name,   \* process_files: the name of the time axis in the model files
  pc,          \* process_files: the stage the run is at
  job,         \* process_files: the pattern being processed
  products,    \* process_files: the three product datasets of that pattern
  lists,       \* process_files: surface_, bottom_ and integrated_datasets
  combined,    \* process_files: combined_surface_, _bottom_ and _integrated_ds
  slot,        \* process_files: number of lists already combined
  todo,        \* _save_output: the calls the save method has still to make
  files,       \* the output directory
  skipped,     \* the files named by a "Skipping save" diagnostic
  error,       \* the exception that ended the run, "" while there is none
  mask_opens,  \* _generate_mask: number of times the mask file was opened
  config_file, \* OptionsReader: the configuration file handed to the run
  reader,      \* OptionsReader: the options read from it, once read
  copy,        \* write_to_file: the file written, once written
  reread       \* OptionsReader: the options read from the written file

buildVars == <<ds, grd, vars_dict, suffix, mapping, pos, new_vars, product>>

combineVars == <<datasets, outcome>>

runVars == <<options, time_name, pc, job, products, lists, combined, slot, todo, files, skipped, error>>

configVars == <<config_file, reader, copy, reread>>

vars == <<mode, buildVars, combineVars, runVars, mask_opens, configVars>>

NoProducts == [p \in Range(ProductTypes) |-> EmptyDS]

PerSlot(x) == [p \in Range(ProductTypes) |-> [v \in Range(VarTypes) |-> x]]

NoOptions ==
  [phys_files |-> <<>>, bio_files |-> <<>>, time_unit |-> "month", save_option |-> "all",
   surface_vars |-> [phys_vars |-> <<>>, bio_vars |-> <<>>],
   bottom_vars |-> [phys_vars |-> <<>>, bio_vars |-> <<>>],
   integrated_vars |-> [phys_vars |-> <<>>, bio_vars |-> <<>>],
   mapping |-> NoVars]

\* the variables of a run while another operation is exercised
RunIdle ==
  /\ options = NoOptions
  /\ time_name = "time_counter"
  /\ pc = "idle"
  /\ job = 0
  /\ products = NoProducts
  /\ lists = PerSlot(<<>>)
  /\ combined = PerSlot(EmptyDS)
  /\ slot = 0
  /\ todo = <<>>
  /\ files = NoVars
  /\ skipped = {}
  /\ error = ""

NotYet == [built |-> FALSE]

\* the variables of the configuration while another operation is exercised
ConfigIdle ==
  /\ config_file = NoVars
  /\ reader = Unset
  /\ copy = Unset
  /\ reread = Unset

Pending == [done |-> FALSE]

\* the state a call of _create_dataset starts from
BuildStart ==
  /\ mode = "build"
  /\ ds \in RawDatasets
  /\ pos = 0
  /\ new_vars = NoVars
  /\ product = NotYet
  /\ datasets = <<>>
  /\ outcome = Pending
  /\ RunIdle
  /\ mask_opens = 0
  /\ ConfigIdle

\* calls over every variable list and name mapping
InitBuild ==
  /\ BuildStart
  /\ \E bc \in ListCases : suffix = bc[1] /\ grd = bc[2]
  /\ vars_dict \in VarLists
  /\ mapping \in Mappings

\* calls over every mask
InitMask ==
  /\ BuildStart
  /\ \E bc \in MaskCases : suffix = bc[1] /\ grd = bc[2]
  /\ vars_dict \in MaskLists
  /\ mapping = NoVars

\* one pass of "for var in vars_dict"
BuildVar ==
  /\ mode = "build"
  /\ ~product.built
  /\ pos < Len(vars_dict)
  /\ new_vars' = LoopBody(ds, vars_dict[pos + 1], suffix, grd, mapping, new_vars)
  /\ pos' = pos + 1
  /\ mask_opens' = mask_opens + OpensFor(ds, vars_dict[pos + 1], suffix)
  /\ UNCHANGED <<mode, ds, grd, vars_dict, suffix, mapping, product, combineVars, runVars, configVars>>

\* return xr.Dataset(new_vars)
BuildReturn ==
  /\ mode = "build"
  /\ ~product.built
  /\ pos = Len(vars_dict)
  /\ product' = [built |-> TRUE, vars |-> new_vars]
  /\ UNCHANGED <<mode, ds, grd, vars_dict, suffix, mapping, pos, new_vars, combineVars, runVars, mask_opens, configVars>>

NextBuild == BuildVar \/ BuildReturn

SpecBuild == InitBuild /\ [][NextBuild]_vars

SpecMask == InitMask /\ [][NextBuild]_vars

\* ------------------------------------------------ properties of the build
OutName(var) == GetVariableName(mapping, var) \o <<suffix>>

\* the variable just looped over
Current == vars_dict[pos]

Resolved(var) == ResolveVariable(ds, var)

\* resolving var and reducing it both return normally
Processes(var) == ~ProcessVariable(ds, var, suffix, grd).exc

\* C4: once the product dataset is returned, its variable names are exactly
\* the mapped, suffixed names of the listed variables whose resolution and
\* reduction succeeded.
C4_ExactlyTheProcessed ==
  product.built =>
    DOMAIN product.vars = {OutName(v) : v \in {w \in Range(vars_dict) : Processes(w)}}

\* C5: a listed field that exists with units and has no vertical dimension
\* is in the returned product dataset under its mapped, suffixed name, with
\* the source values and the source units.
C5_FlatFieldKept ==
  (/\ product.built
   /\ <<"s">> \in Range(vars_dict)
   /\ <<"s">> \in DOMAIN ds.fields
   /\ ds.fields[<<"s">>].hasUnits)
  => /\ OutName(<<"s">>) \in DOMAIN product.vars
     /\ product.vars[OutName(<<"s">>)].data = ds.fields[<<"s">>].data
     /\ product.vars[OutName(<<"s">>)].units = [kind |-> "str", s |-> ds.fields[<<"s">>].units]

\* the sum of the fields of a sequence of component names, one term per
\* component
RECURSIVE TermSum(_, _, _, _)
TermSum(components, t, k, c) ==
  IF components = <<>> THEN 0
  ELSE Get(ds.fields[Head(components)], t, k, c) + TermSum(Tail(components), t, k, c)

Summed(var) == "+" \in Range(var)

Resolvable(var) ==
  /\ \A n \in Range(Split(var)) : n \in DOMAIN ds.fields
  /\ ds.fields[Split(var)[1]].hasUnits

\* C9: a summed expression whose components all exist and whose first
\* component has units resolves to the element-wise sum of its component
\* fields, with the units of the first component ending in "2" instead of
\* their last character; any other summed expression fails to resolve and is
\* not in the product dataset.
C9_SummedExpression ==
  \A v \in (IF pos > 0 THEN {Current} ELSE {}) : Summed(v) =>
    IF Resolvable(v)
    THEN /\ ~Resolved(v).exc
         /\ \A t \in DOMAIN ds.axis.idx, k \in Levels, c \in Cols :
              Get(Resolved(v).val.field, t, k, c) = TermSum(Split(v), t, k, c)
         /\ LET u == ds.fields[Split(v)[1]].units
                r == Resolved(v).val.units
            IN Len(u) > 0 =>
                 /\ Len(r) = Len(u)
                 /\ r[Len(r)] = "2"
                 /\ \A i \in 1..(Len(u) - 1) : r[i] = u[i]
    ELSE /\ Resolved(v).exc
         /\ product.built => OutName(v) \notin DOMAIN product.vars

\* the mask column c is 1 at level k0 and 0 at every other level
OneHot(mask, c, k0) == \A k \in Levels : mask[k][c] = (IF k = k0 THEN 1 ELSE 0)

AllZero(mask, c) == \A k \in Levels : mask[k][c] = 0

RECURSIVE MaskedSum(_, _, _, _, _)
MaskedSum(field, mask, t, c, k) ==
  IF k = 0 THEN 0
  ELSE field.data[t][k][c] * mask[k][c] + MaskedSum(field, mask, t, c, k - 1)

\* a variable with a vertical dimension has just been reduced to its bottom
BottomCase ==
  /\ pos > 0
  /\ suffix = "_bottom"
  /\ grd.openable
  /\ ~Resolved(Current).exc
  /\ Resolved(Current).val.field.deptht

\* C10: the bottom product of a field with a vertical axis is, in every
\* column, the sum over the levels of field times bottom mask: the value at
\* the one level where the mask is 1, and 0 where the mask is 0 at every
\* level; its units are those of the resolved field.
C10_BottomReduce ==
  BottomCase =>
    /\ OutName(Current) \in DOMAIN new_vars
    /\ LET field == Resolved(Current).val.field
           out == new_vars[OutName(Current)]
       IN /\ out.units = [kind |-> "str", s |-> Resolved(Current).val.units]
          /\ \A t \in DOMAIN ds.axis.idx, c \in Cols :
               /\ out.data[t][c] = MaskedSum(field, grd.floor, t, c, NZ)
               /\ \A k0 \in Levels :
                    OneHot(grd.floor, c, k0) => out.data[t][c] = field.data[t][k0][c]
               /\ AllZero(grd.floor, c) => out.data[t][c] = 0

\* a bottom product with one column picked at its upper level and one column
\* without a bottom cell
C10_Witness ==
  /\ BottomCase
  /\ NZ > 1
  /\ \E c1, c2 \in Cols :
       /\ OneHot(grd.floor, c1, 1)
       /\ AllZero(grd.floor, c2)
       /\ \E t \in DOMAIN ds.axis.idx :
            /\ new_vars[OutName(Current)].data[t][c1] > 0
            /\ new_vars[OutName(Current)].data[t][c2] = 0

\* a variable with a vertical dimension has just been integrated
IntegratedCase ==
  /\ pos > 0
  /\ suffix = "_integrated"
  /\ grd.openable
  /\ ~Resolved(Current).exc
  /\ Resolved(Current).val.field.deptht

\* the levels of column c from level k down to 1, each weighted by the cell
\* thickness where the mask is 1 and left out where it is 0
RECURSIVE WeightedSum(_, _, _, _)
WeightedSum(field, t, c, k) ==
  IF k = 0 THEN 0
  ELSE (IF grd.tmask[k][c] = 1 THEN field.data[t][k][c] * grd.e3t_0[k][c] ELSE 0)
       + WeightedSum(field, t, c, k - 1)

\* C11: the integrated product of a field with a vertical axis is, in every
\* column, the sum over all levels of field times cell thickness times mask,
\* the levels with mask 0 adding nothing; it has one value per time and
\* column and no vertical axis, and its units are those of the resolved field.
C11_IntegratedReduce ==
  IntegratedCase =>
    /\ OutName(Current) \in DOMAIN new_vars
    /\ LET field == Resolved(Current).val.field
           out == new_vars[OutName(Current)]
       IN /\ out.units = [kind |-> "str", s |-> Resolved(Current).val.units]
          /\ DOMAIN out.data = DOMAIN ds.axis.idx
          /\ \A t \in DOMAIN ds.axis.idx :
               /\ DOMAIN out.data[t] = Cols
               /\ \A c \in Cols :
                    /\ out.data[t][c] \in Int
                    /\ out.data[t][c] = WeightedSum(field, t, c, NZ)

\* an integrated product over a mask that keeps one level and drops another,
\* in a column where the kept cell is thicker than 1
C11_Witness ==
  /\ IntegratedCase
  /\ \E c \in Cols, k1, k2 \in Levels, t \in DOMAIN ds.axis.idx :
       /\ grd.tmask[k1][c] = 1
       /\ grd.tmask[k2][c] = 0
       /\ grd.e3t_0[k1][c] > 1
       /\ new_vars[OutName(Current)].data[t][c] > Resolved(Current).val.field.data[t][k1][c]

\* "processed_var is not None": the variable has come through the try of the
\* loop and is entered into new_vars
Entered(var) == ~TryProcess(ds, var, suffix, grd).exc

\* what the loop enters into new_vars for var
EntryOf(var) == LoopBody(ds, var, suffix, grd, mapping, NoVars)[OutName(var)]

\* no expression is listed twice
DistinctList ==
  \A i, j \in DOMAIN vars_dict : i # j => vars_dict[i] # vars_dict[j]

\* C21: the product dataset returned for a list of distinct expressions has
\* exactly one variable per expression that came through the loop: two
\* different such expressions have different output names and each is in the
\* dataset as the loop entered it, under every name mapping.
C21_DistinctOutputNames ==
  (product.built /\ DistinctList) =>
    LET entered == {w \in Range(vars_dict) : Entered(w)}
    IN /\ Cardinality(DOMAIN product.vars) = Cardinality(entered)
       /\ \A v, w \in entered : v # w => OutName(v) # OutName(w)
       /\ \A v \in entered : product.vars[OutName(v)] = EntryOf(v)

\* ---------------------------------------------- inputs of the combine runs
MaxInputs == 3   \* longest list handed to _combine_datasets

MkDS(names, idx, grid, src) ==
  [vars |-> [n \in names |-> [timed |-> TRUE,
                              units |-> [kind |-> "str", s |-> <<"K">>],
                              src |-> src]],
   axis |-> [kind |-> "dim", name |-> "time_counter", idx |-> idx],
   grid |-> grid]

\* product datasets of different input patterns: the same variable over
\* later times, another variable, the same variable over overlapping times,
\* and a dataset on another horizontal grid
ProductPool ==
  { EmptyDS,
    MkDS({<<"a", "_surface">>}, <<1, 2>>, 1, "p1"),
    MkDS({<<"a", "_surface">>}, <<3, 4>>, 1, "p2"),
    MkDS({<<"b", "_surface">>}, <<1, 2>>, 1, "p2"),
    MkDS({<<"a", "_surface">>}, <<2, 3>>, 1, "p3"),
    MkDS({<<"b", "_surface">>}, <<1, 2>>, 2, "p4") }

InitCombine ==
  /\ mode = "combine"
  /\ datasets \in UNION {[1..n -> ProductPool] : n \in 0..MaxInputs}
  /\ outcome = Pending
  /\ ds = EmptyDS
  /\ grd = MkGrd(TRUE, Ones, Ones)
  /\ vars_dict = <<>>
  /\ suffix = "_surface"
  /\ mapping = NoVars
  /\ pos = 0
  /\ new_vars = NoVars
  /\ product = NotYet
  /\ RunIdle
  /\ mask_opens = 0
  /\ ConfigIdle

\* a call of _combine_datasets
Combine ==
  /\ mode = "combine"
  /\ ~outcome.done
  /\ outcome' = [done |-> TRUE, result |-> CombineDatasets(datasets)]
  /\ UNCHANGED <<mode, buildVars, datasets, runVars, mask_opens, configVars>>

NextCombine == Combine

SpecCombine == InitCombine /\ [][NextCombine]_vars

\* ---------------------------------------------- properties of the combine
KeptAt == {i \in DOMAIN datasets : NonEmpty(datasets[i])}

Kept == SelectSeq(datasets, NonEmpty)

\* C6: the empty inputs are dropped; one remaining input is returned as it
\* is, wherever it stands among the empty ones, and no remaining input gives
\* a dataset without variables.
C6_SingleOrNone ==
  outcome.done =>
    /\ ~outcome.result.exc
    /\ \A i \in KeptAt : KeptAt = {i} => outcome.result.val = datasets[i]
    /\ KeptAt = {} => DOMAIN outcome.result.val.vars = {}

\* one non-empty input between two empty ones came back unchanged
C6_Witness ==
  /\ outcome.done
  /\ Len(datasets) = 3
  /\ KeptAt = {2}
  /\ outcome.result.val = datasets[2]
  /\ NonEmpty(outcome.result.val)

Increasing(idx) == \A i, j \in DOMAIN idx : i < j => idx[i] < idx[j]

\* C7: several non-empty inputs with compatible coordinates combine into a
\* non-empty dataset holding the union of their variables over a sorted
\* time index without duplicates.
C7_UnionOfCompatible ==
  (/\ outcome.done
   /\ Len(datasets) > 1
   /\ KeptAt = DOMAIN datasets
   /\ Mergeable(datasets))
  => /\ ~outcome.result.exc
     /\ DOMAIN outcome.result.val.vars = UNION {DOMAIN datasets[i].vars : i \in DOMAIN datasets}
     /\ Increasing(outcome.result.val.axis.idx)
     /\ NonEmpty(outcome.result.val)

\* merging or re-aligning the non-empty inputs fails
CombineFails ==
  /\ Len(Kept) # 1
  /\ \/ Merge(Kept).exc
     \/ CombineByCoordsOfDataset(Merge(Kept).val).exc

\* C8: a call of combine always returns; when merging or re-aligning fails
\* it returns a dataset without variables, and the list handed in is left as
\* it was.
C8_NeverPropagates ==
  /\ [](outcome.done =>
          /\ ~outcome.result.exc
          /\ CombineFails => outcome.result.val = EmptyDS)
  /\ [][datasets' = datasets]_vars

\* inputs on different grids were handed in and an empty dataset came back
C8_Witness ==
  /\ outcome.done
  /\ Cardinality(KeptAt) > 1
  /\ ~Mergeable(Kept)
  /\ ~outcome.result.exc
  /\ outcome.result.val = EmptyDS

\* ---------------------------------------------------- inputs of the runs
MaxPhys == 2     \* most physical patterns of a configuration
MaxBio == 1      \* most biological patterns of a configuration

\* the file sets the patterns of a configuration may name
PhysPatterns == {"early", "late", "coarse", "still", "missing"}
BioPatterns == {"early"}

YearLength == DaysPerMonth * MonthsPerYear

\* what open_mfdataset gives for a pattern: two months of one year, two
\* months of the next year, field "a" alone on a coarser horizontal grid,
\* and a file set without a time record
RawOf(pattern, tname) ==
  IF pattern = "early" THEN MkRaw("ms", "K", "absent", <<0, DaysPerMonth>>, tname, 1)
  ELSE IF pattern = "late"
  THEN MkRaw("ms", "K", "absent", <<YearLength, YearLength + DaysPerMonth>>, tname, 1)
  ELSE IF pattern = "coarse" THEN MkRaw("ms", "absent", "absent", <<0, DaysPerMonth>>, tname, 2)
  ELSE MkRaw("ms", "K", "absent", <<>>, tname, 1)

\* open_mfdataset raises for a pattern without readable files
Openable(pattern) == pattern # "missing"

VarChoices ==
  { [surface_vars |-> [phys_vars |-> <<<<"a">>>>, bio_vars |-> <<<<"a">>>>],
     bottom_vars |-> [phys_vars |-> <<<<"b">>>>, bio_vars |-> <<<<"b">>>>],
     integrated_vars |-> [phys_vars |-> <<<<"b">>>>, bio_vars |-> <<<<"a">>, <<"b">>>>]] }

\* strategy names that are not one of the five
OtherNames == {"zip", "netcdf", "output"}

InitRun ==
  /\ mode = "run"
  /\ \E ph \in UNION {[1..n -> PhysPatterns] : n \in 0..MaxPhys},
        bi \in UNION {[1..n -> BioPatterns] : n \in 0..MaxBio},
        tu \in {"month", "day", "year"},
        so \in SaveOptions \cup OtherNames,
        vc \in VarChoices :
       options = [phys_files |-> ph, bio_files |-> bi, time_unit |-> tu, save_option |-> so,
                  surface_vars |-> vc.surface_vars, bottom_vars |-> vc.bottom_vars,
                  integrated_vars |-> vc.integrated_vars, mapping |-> NoVars]
  /\ time_name \in {"time_counter", "time"}
  /\ pc = "open"
  /\ job = 1
  /\ products = NoProducts
  /\ lists = PerSlot(<<>>)
  /\ combined = PerSlot(EmptyDS)
  /\ slot = 0
  /\ todo = <<>>
  /\ files = NoVars
  /\ skipped = {}
  /\ error = ""
  /\ mask_opens = 0
  /\ ConfigIdle
  /\ ds = EmptyDS
  /\ grd \in {MkGrd(open, Ones, Ones) : open \in BOOLEAN}
  /\ vars_dict = <<>>
  /\ suffix = "_surface"
  /\ mapping = NoVars
  /\ pos = 0
  /\ new_vars = NoVars
  /\ product = NotYet
  /\ datasets = <<>>
  /\ outcome = Pending

\* the patterns with the biological loop ahead of the physical one
JobsBioFirst ==
  [i \in 1..Len(options.bio_files) |-> [var_type |-> "bio", pattern |-> options.bio_files[i]]]
  \o [i \in 1..Len(options.phys_files) |-> [var_type |-> "phys", pattern |-> options.phys_files[i]]]

\* the patterns in the order process_files loops over them
Jobs ==
  [i \in 1..Len(options.phys_files) |-> [var_type |-> "phys", pattern |-> options.phys_files[i]]]
  \o [i \in 1..Len(options.bio_files) |-> [var_type |-> "bio", pattern |-> options.bio_files[i]]]

VarsOf(var_type) ==
  IF var_type = "phys"
  THEN [surface |-> options.surface_vars.phys_vars,
        bottom |-> options.bottom_vars.phys_vars,
        integrated |-> options.integrated_vars.phys_vars]
  ELSE [surface |-> options.surface_vars.bio_vars,
        bottom |-> options.bottom_vars.bio_vars,
        integrated |-> options.integrated_vars.bio_vars]

SuffixOf == [surface |-> "_surface", bottom |-> "_bottom", integrated |-> "_integrated"]

fixed == <<mode, buildVars, combineVars, options, time_name>>

\* xr.open_mfdataset(files, combine='by_coords') of the next pattern
OpenPattern ==
  /\ mode = "run" /\ pc = "open" /\ job <= Len(Jobs)
  /\ pc' = IF Openable(Jobs[job].pattern) THEN "build" ELSE "aborted"
  /\ error' = IF Openable(Jobs[job].pattern) THEN error ELSE "open"
  /\ UNCHANGED <<fixed, mask_opens, configVars, job, products, lists, combined, slot, todo, files, skipped>>

\* _process_surface, _process_bottom and _process_integrated of the pattern
BuildProducts ==
  /\ mode = "run" /\ pc = "build"
  /\ products' = [p \in Range(ProductTypes) |->
       Outline(CreateDataset(RawOf(Jobs[job].pattern, time_name), VarsOf(Jobs[job].var_type)[p],
                             SuffixOf[p], grd, options.mapping),
               RawOf(Jobs[job].pattern, time_name),
               Jobs[job].pattern)]
  /\ pc' = "interpolate"
  /\ mask_opens' = mask_opens
       + MaskOpens(RawOf(Jobs[job].pattern, time_name), VarsOf(Jobs[job].var_type)["bottom"],
                   "_bottom")
       + MaskOpens(RawOf(Jobs[job].pattern, time_name), VarsOf(Jobs[job].var_type)["integrated"],
                   "_integrated")
  /\ UNCHANGED <<fixed, configVars, job, lists, combined, slot, todo, files, skipped, error>>

\* the three calls of _interpolate_time of the pattern
InterpolateProducts ==
  /\ mode = "run" /\ pc = "interpolate"
  /\ IF \E p \in Range(ProductTypes) : InterpolateTime(products[p], options.time_unit).exc
     THEN pc' = "aborted" /\ error' = "resample" /\ UNCHANGED products
     ELSE /\ products' = [p \in Range(ProductTypes) |->
                            InterpolateTime(products[p], options.time_unit).val]
          /\ pc' = "append"
          /\ error' = error
  /\ UNCHANGED <<fixed, mask_opens, configVars, job, lists, combined, slot, todo, files, skipped>>

\* the three appends of the pattern
AppendProducts ==
  /\ mode = "run" /\ pc = "append"
  /\ lists' = [p \in Range(ProductTypes) |->
                 [lists[p] EXCEPT ![Jobs[job].var_type] = Append(@, products[p])]]
  /\ job' = job + 1
  /\ pc' = "open"
  /\ UNCHANGED <<fixed, mask_opens, configVars, products, combined, slot, todo, files, skipped, error>>

\* the six slots in the order they are combined
Slots == Flatten([p \in 1..3 |-> [v \in 1..2 |-> [ptype |-> ProductTypes[p], var_type |-> VarTypes[v]]]])

\* the next call of _combine_datasets, once every pattern is processed
CombineSlot ==
  /\ mode = "run"
  /\ \/ pc = "open" /\ job > Len(Jobs)
     \/ pc = "combine"
  /\ slot < Len(Slots)
  /\ LET sl == Slots[slot + 1]
         r == CombineDatasets(lists[sl.ptype][sl.var_type])
     IN IF r.exc
        THEN pc' = "aborted" /\ error' = "combine" /\ UNCHANGED combined
        ELSE /\ combined' = [combined EXCEPT ![sl.ptype][sl.var_type] = r.val]
             /\ pc' = IF slot + 1 = Len(Slots) THEN "save_output" ELSE "combine"
             /\ error' = error
  /\ slot' = slot + 1
  /\ UNCHANGED <<fixed, mask_opens, configVars, job, products, lists, todo, files, skipped>>

\* _save_output up to the call of the save method
SaveOutput ==
  /\ mode = "run" /\ pc = "save_output"
  /\ IF GetSaveFunc(options.save_option) = "strategy"
     THEN todo' = SaveFunc(options.save_option, combined) /\ pc' = "saving" /\ error' = error
     ELSE /\ todo' = todo /\ pc' = "aborted"           \* the error is not caught
          /\ error' = GetSaveFunc(options.save_option)
  /\ UNCHANGED <<fixed, mask_opens, configVars, job, products, lists, combined, slot, files, skipped>>

\* the next call of _save_netcdf; ds.to_netcdf writes the file or fails on
\* the file system
SaveNetcdfCall ==
  /\ mode = "run" /\ pc = "saving" /\ todo # <<>> /\ Head(todo).op = "save"
  /\ \E written \in BOOLEAN :
       LET way == SaveNetcdf(Head(todo).ds)
       IN /\ (way # "write") => written
          /\ files' = IF way = "write" /\ written
                      THEN (Head(todo).file :> Head(todo).ds) @@ files ELSE files
          /\ skipped' = IF way = "skip" THEN skipped \cup {Head(todo).file} ELSE skipped
          /\ pc' = IF way = "raise" \/ ~written THEN "aborted" ELSE "saving"
          /\ error' = IF way = "raise" THEN "time_counter"
                      ELSE IF ~written THEN "write" ELSE error
  /\ todo' = Tail(todo)
  /\ UNCHANGED <<fixed, mask_opens, configVars, job, products, lists, combined, slot>>

\* the save method raises between two writes
SaveRaises ==
  /\ mode = "run" /\ pc = "saving" /\ todo # <<>> /\ Head(todo).op = "raise"
  /\ pc' = "aborted"
  /\ error' = "strategy"
  /\ UNCHANGED <<fixed, mask_opens, configVars, job, products, lists, combined, slot, todo, files, skipped>>

\* the configuration copy written while the save method is still at work
WriteOptionsEarly ==
  /\ mode = "run" /\ pc = "saving"
  /\ files' = (OptionsIni :> EmptyDS) @@ files
  /\ pc' = IF todo = <<>> THEN "done" ELSE "saving"
  /\ UNCHANGED <<fixed, mask_opens, configVars, job, products, lists, combined, slot, todo, skipped, error>>

\* options.write_to_file(.../options.ini), after the save method returned;
\* the file is written or the write fails on the file system
WriteOptions ==
  /\ mode = "run" /\ pc = "saving" /\ todo = <<>>
  /\ \E written \in BOOLEAN :
       /\ files' = IF written THEN (OptionsIni :> EmptyDS) @@ files ELSE files
       /\ pc' = IF written THEN "done" ELSE "aborted"
       /\ error' = IF written THEN error ELSE "write"
  /\ UNCHANGED <<fixed, mask_opens, configVars, job, products, lists, combined, slot, todo, skipped>>

Next ==
  \/ OpenPattern
  \/ BuildProducts
  \/ InterpolateProducts
  \/ AppendProducts
  \/ CombineSlot
  \/ SaveOutput
  \/ SaveNetcdfCall
  \/ SaveRaises
  \/ WriteOptions

Init == InitRun

Spec == Init /\ [][Next]_vars

\* -------------------------------------------------- properties of the runs
Finished == pc \in {"done", "aborted"}

\* _save_output has been entered with every list combined
Saved == Finished /\ slot = Len(Slots) /\ options.save_option \in SaveOptions

DataFiles == DOMAIN files \ {OptionsIni}

HasEntries(d) == d.axis.kind = "dim" /\ Len(d.axis.idx) > 0

\* C1: under by_variable_type, on a file system that takes every write, the
\* data files are exactly those of the pairs whose combined dataset has a
\* variable and a non-empty time axis, each holding the combined dataset of
\* its pair; a pair without variables gives no file and leaves the files of
\* the other pairs to be written.
C1_OneFilePerPair ==
  (Saved /\ error # "write" /\ options.save_option = "by_variable_type"
   /\ time_name = "time_counter")
  => /\ DataFiles = {FileName(sl.ptype, sl.var_type, NoYear, <<>>) :
                       sl \in {x \in Range(Slots) :
                                 /\ NonEmpty(combined[x.ptype][x.var_type])
                                 /\ HasEntries(combined[x.ptype][x.var_type])}}
     /\ \A f \in DataFiles : files[f] = combined[f.kind][f.key]

\* a call of _save_netcdf on a dataset whose time axis is there and empty
EmptyTimeCall ==
  /\ pc = "saving" /\ todo # <<>> /\ Head(todo).op = "save"
  /\ Head(todo).ds.axis.kind = "dim"
  /\ Head(todo).ds.axis.name = "time_counter"
  /\ Head(todo).ds.axis.idx = <<>>

MergeFails(sl) ==
  LET kept == SelectSeq(lists[sl.ptype][sl.var_type], NonEmpty)
  IN Len(kept) > 1 /\ ~Mergeable(kept)

\* C3: when the merge of one slot fails, that slot is combined to an empty
\* dataset, the other five slots are combined, and the run writes their
\* outputs and the configuration copy, under each of the five strategies
\* (on a file system that takes every write).
C3_MergeFailureIsolated ==
  \A sl \in Range(Slots) :
    (/\ Saved
     /\ error # "write"
     /\ time_name = "time_counter"
     /\ MergeFails(sl)
     /\ \A other \in Range(Slots) \ {sl} :
          HasEntries(combined[other.ptype][other.var_type]))
    => /\ combined[sl.ptype][sl.var_type] = EmptyDS
       /\ pc = "done"
       /\ OptionsIni \in DOMAIN files
       /\ DataFiles # {}

\* the time units _interpolate_time resamples by
TimeUnits == {"month", "day"}

\* C12: a run whose time unit is neither 'month' nor 'day' stops on an
\* unsupported-option error: it never gets to write a data file built from
\* products that were left without resampling.
C12_UnsupportedTimeUnit ==
  (mode = "run" /\ options.time_unit \notin TimeUnits) => DataFiles = {}

\* the calls a strategy makes, from the n-th on
Rest(calls, n) == SubSeq(calls, n, Len(calls))

\* C13: a run whose strategy name is not one of the five never writes a data
\* file or the configuration copy and never completes; and in every run the
\* only save calls made are those of the configured strategy, in its order.
C13_UnknownStrategyAborts ==
  /\ (mode = "run" /\ options.save_option \notin SaveOptions) =>
       /\ files = NoVars
       /\ todo = <<>>
       /\ pc \notin {"saving", "done"}
  /\ (mode = "run" /\ pc = "saving") =>
       /\ options.save_option \in SaveOptions
       /\ \E n \in 1..(Len(SaveFunc(options.save_option, combined)) + 1) :
            todo = Rest(SaveFunc(options.save_option, combined), n)

\* a run with an unknown strategy name combined data that could have been
\* written and stopped at the lookup of the save method
C13_Witness ==
  /\ mode = "run"
  /\ options.save_option \notin SaveOptions
  /\ pc = "aborted"
  /\ slot = Len(Slots)
  /\ \E sl \in Range(Slots) : HasEntries(combined[sl.ptype][sl.var_type])
  /\ files = NoVars

HasOptionsIni == OptionsIni \in DOMAIN files

\* C14: options.ini is in the output directory only once the strategy has
\* made all its calls and the run is complete; it is written in one step,
\* from the state where no save call is left, and nothing is written after
\* it; every complete run has it; a run that aborts has not, and the step
\* that aborts leaves the files written before in place.
C14_OptionsIniLast ==
  /\ [](HasOptionsIni => (pc = "done" /\ todo = <<>>))
  /\ []((mode = "run" /\ pc = "done") => HasOptionsIni)
  /\ [](pc = "aborted" => ~HasOptionsIni)
  /\ [][(HasOptionsIni' /\ ~HasOptionsIni) =>
          (pc = "saving" /\ todo = <<>> /\ DataFiles' = DataFiles)]_vars
  /\ [][HasOptionsIni => files' = files]_vars
  /\ [][pc' = "aborted" => files' = files]_vars

\* a run whose second write failed: the first data file is there, the
\* configuration copy is not
C14_Witness ==
  /\ pc = "aborted"
  /\ error = "write"
  /\ DataFiles # {}
  /\ todo # <<>>
  /\ ~HasOptionsIni

\* the calendar years on the time axis of a dataset
YearsOf(d) == IF d.axis.kind = "dim" THEN {YearOf(t) : t \in Range(d.axis.idx)} ELSE {}

\* the entries of a dataset that fall in a year
EntriesOf(d, year) ==
  [d EXCEPT !.axis.idx = SelectSeq(d.axis.idx, LAMBDA t : YearOf(t) = year)]

\* C15: under yearly with a supported time unit, with a mask file that opens
\* and on a file system that takes every write, the data files are exactly
\* one per slot and calendar year on that slot's own time axis, each holding
\* the slot's entries of that year, whatever years the other slots cover and
\* whether or not the surface/phys slot is empty.
C15_YearlyFiles ==
  (/\ Saved
   /\ error # "write"
   /\ grd.openable
   /\ options.time_unit \in TimeUnits
   /\ options.save_option = "yearly") =>
    /\ DataFiles = UNION {{FileName(sl.ptype, sl.var_type, y, <<>>) :
                             y \in YearsOf(combined[sl.ptype][sl.var_type])} :
                          sl \in Range(Slots)}
    /\ \A f \in DataFiles : files[f] = EntriesOf(combined[f.kind][f.key], f.year)

\* the product types of a domain that hold a variable, in the order of
\* _save_by_phys_bio
KeptOf(var_type) ==
  SelectSeq([p \in 1..3 |-> combined[ProductTypes[p]][var_type]], NonEmpty)

VarsOfAll(list) == UNION {DOMAIN list[i].vars : i \in DOMAIN list}

\* a finished by_phys_bio run over model files with the time axis
\* time_counter and a mask file that opens, on a file system that took every
\* write
PhysBioRun ==
  /\ Saved
  /\ error # "write"
  /\ grd.openable
  /\ options.save_option = "by_phys_bio"
  /\ time_name = "time_counter"

\* C16: under by_phys_bio the data files are exactly one
\* processed_<domain>.nc per domain with a variable in some product type,
\* holding the union of the variables of its non-empty product types, and the
\* run completes.
C16_OnePerDomain ==
  PhysBioRun =>
    /\ pc = "done"
    /\ DataFiles = {FileName("processed", v, NoYear, <<>>) :
                      v \in {w \in Range(VarTypes) : KeptOf(w) # <<>>}}
    /\ \A f \in DataFiles : DOMAIN files[f].vars = VarsOfAll(KeptOf(f.key))

OutputNc == FileName("processed_output", "", NoYear, <<>>)

\* a finished run under the strategy all with a supported time unit, over
\* model files with the time axis time_counter and one horizontal grid and a
\* mask file that opens, on a file system that took every write
AllRun ==
  /\ Saved
  /\ error # "write"
  /\ grd.openable
  /\ options.time_unit \in TimeUnits
  /\ options.save_option = "all"
  /\ time_name = "time_counter"
  /\ \A s1, s2 \in Range(Slots) :
       (NonEmpty(combined[s1.ptype][s1.var_type]) /\ NonEmpty(combined[s2.ptype][s2.var_type]))
         => combined[s1.ptype][s1.var_type].grid = combined[s2.ptype][s2.var_type].grid

\* C17: under all, the only data file is processed_output.nc; when a slot
\* holds a variable over a time entry the file is written, its variables are
\* the union of the variables of the six slots, and every variable of every
\* slot is in it as that slot holds it.
C17_AllInOne ==
  AllRun =>
    /\ DataFiles \subseteq {OutputNc}
    /\ (\E sl \in Range(Slots) : HasEntries(combined[sl.ptype][sl.var_type])) =>
         /\ DataFiles = {OutputNc}
         /\ DOMAIN files[OutputNc].vars =
              UNION {DOMAIN combined[sl.ptype][sl.var_type].vars : sl \in Range(Slots)}
         /\ \A sl \in Range(Slots) :
              \A n \in DOMAIN combined[sl.ptype][sl.var_type].vars :
                files[OutputNc].vars[n] = combined[sl.ptype][sl.var_type].vars[n]

\* C18: in a run whose mask file opens, the mask file is opened at most
\* once, however many bottom and integrated variables, patterns and domains
\* are processed.
C18_MaskLoadedOnce ==
  (mode = "run" /\ grd.openable) => mask_opens <= 1

\* opening the file set of a pattern has failed
PatternOpenFailed == error = "open"

\* the mask file has been asked for and did not open
MaskOpenFailed == ~grd.openable /\ mask_opens > 0

\* C19: once the file set of a pattern or the mask file has failed to open,
\* the run never writes a data file or the configuration copy and never
\* completes.
C19_OpenFailureFatal ==
  (mode = "run" /\ (PatternOpenFailed \/ MaskOpenFailed)) =>
    (files = NoVars /\ pc # "done")

\* the product dataset of one pattern as it is appended: built, then resampled
ProductOf(p, var_type, pattern) ==
  InterpolateTime(Outline(CreateDataset(RawOf(pattern, time_name), VarsOf(var_type)[p],
                                        SuffixOf[p], grd, options.mapping),
                          RawOf(pattern, time_name), pattern),
                  options.time_unit).val

PatternsOf(var_type) == IF var_type = "phys" THEN options.phys_files ELSE options.bio_files

\* every pattern of both domains has been processed
AllProcessed == job = Len(options.phys_files) + Len(options.bio_files) + 1

\* each of the six lists holds the products of the patterns of its domain,
\* one per pattern, in pattern order
ListsComplete ==
  \A p \in Range(ProductTypes), v \in Range(VarTypes) :
    /\ Len(lists[p][v]) = Len(PatternsOf(v))
    /\ \A i \in 1..Len(PatternsOf(v)) : lists[p][v][i] = ProductOf(p, v, PatternsOf(v)[i])

\* C20: the stages of a run are strictly ordered.  The patterns are taken
\* one at a time, the physical ones before the biological ones; for a
\* pattern the three products are built, then resampled, then appended, and
\* only then the next pattern is opened; no list is combined before every
\* pattern is processed, and then each list holds one product per pattern
\* of its domain in pattern order; no file is written before all six lists
\* are combined.
C20_StagesOrdered ==
  /\ [](mode = "run" =>
          /\ slot > 0 => AllProcessed
          /\ (AllProcessed /\ pc = "open") => ListsComplete
          /\ (pc \in {"save_output", "saving", "done"} \/ files # NoVars) => slot = Len(Slots)
          /\ job <= Len(options.phys_files) =>
               \A p \in Range(ProductTypes) : lists[p]["bio"] = <<>>
          /\ \A p \in Range(ProductTypes) :
               /\ Len(lists[p]["phys"]) + Len(lists[p]["bio"]) \in {job - 1, job}
               /\ Len(lists[p]["phys"]) <= Len(options.phys_files)
               /\ Len(lists[p]["bio"]) <= Len(options.bio_files))
  /\ [][mode = "run" =>
          /\ job' \in {job, job + 1}
          /\ slot' \in {slot, slot + 1}
          /\ pc = "open" => pc' \in {"build", "combine", "save_output", "aborted"}
          /\ pc = "build" => pc' = "interpolate"
          /\ pc = "interpolate" => pc' \in {"append", "aborted"}
          /\ pc = "append" => (pc' = "open" /\ job' = job + 1)
          /\ pc = "combine" => pc' \in {"combine", "save_output"}
          /\ lists' # lists => (pc = "append" /\ slot = 0 /\ ~AllProcessed)]_vars

\* combining is about to start on lists of two physical products and one
\* biological product
C20_Witness ==
  /\ mode = "run"
  /\ pc = "open"
  /\ AllProcessed
  /\ slot = 0
  /\ Len(options.phys_files) = 2
  /\ options.phys_files[1] # options.phys_files[2]
  /\ Len(options.bio_files) = 1
  /\ ListsComplete
  /\ \A p \in Range(ProductTypes) : NonEmpty(lists[p]["phys"][2])

\* ------------------------------------- inputs of the configuration runs
\* the text of phys_files: nothing, one pattern, two patterns on
\* continuation lines, and patterns with blanks and an empty line around them
PatternTexts ==
  { <<>>, <<"p1">>, <<"\n", "\t", "p1", "\n", "\t", "p2">>,
    <<"p1", " ", "x", " ", "\n", "\n", " ", "p2">> }

\* the text of a variable list: one name, two names on one line, an
\* expression and a name on two lines
VarTexts ==
  { <<"a">>, <<"a", " ", "b">>, <<"a", "+", "b", "\n", "\t", "b">> }

\* the PARAMS section with all its options
ParamsTexts ==
  { [opt \in Required |->
       IF opt = "model_type" THEN mt
       ELSE IF opt = "model_path" THEN <<"in">>
       ELSE IF opt = "output_path" THEN <<"out">>
       ELSE IF opt = "mask_path" THEN <<"mask">>
       ELSE IF opt = "phys_files" THEN ph
       ELSE IF opt = "bio_files" THEN bi
       ELSE IF opt = "time_unit" THEN tu
       ELSE so] :
    mt \in {<<"NEMO">>, <<"FVCOM">>}, ph \in PatternTexts, bi \in {<<>>, <<"q1">>},
    tu \in {<<"month">>, <<"year">>}, so \in {<<"all">>, <<"zip">>} }

\* f without the option opt
Without(f, opt) == [o \in DOMAIN f \ {opt} |-> f[o]]

\* the PARAMS sections tried: complete, or with one option missing
ParamsSections ==
  ParamsTexts \cup {Without(f, opt) : f \in ParamsTexts, opt \in {"model_type", "time_unit"}}

\* the SURFACE sections tried: the phys_vars of VarTexts, with or without
\* bio_vars
SurfaceSections ==
  {("phys_vars" :> v) : v \in VarTexts}
  \cup {("phys_vars" :> v) @@ ("bio_vars" :> <<"a">>) : v \in VarTexts}

\* the MAPPING sections tried: without options and with one
MappingSections == { NoVars, ("a" :> <<"T">>) }

\* the sections of f named in keep
Sections(f, keep) == [sec \in keep |-> f[sec]]

ConfigFiles ==
  { Sections([PARAMS |-> pa, SURFACE |-> su, BOTTOM |-> ("phys_vars" :> <<"b">>),
              MAPPING |-> ma],
             {"PARAMS"} \cup opt) :
    pa \in ParamsSections, su \in SurfaceSections, ma \in MappingSections,
    opt \in SUBSET {"SURFACE", "BOTTOM", "MAPPING"} }

InitConfig ==
  /\ mode = "config"
  /\ config_file \in ConfigFiles
  /\ reader = Unset
  /\ copy = Unset
  /\ reread = Unset
  /\ ds = EmptyDS
  /\ grd = MkGrd(TRUE, Ones, Ones)
  /\ vars_dict = <<>>
  /\ suffix = "_surface"
  /\ mapping = NoVars
  /\ pos = 0
  /\ new_vars = NoVars
  /\ product = NotYet
  /\ datasets = <<>>
  /\ outcome = Pending
  /\ RunIdle
  /\ mask_opens = 0

\* options = OptionsReader(config_file)
ReadConfig ==
  /\ mode = "config"
  /\ ~reader.set
  /\ reader' = Set(OptionsReader(config_file))
  /\ UNCHANGED <<mode, buildVars, combineVars, runVars, mask_opens, config_file, copy, reread>>

\* options.write_to_file(...), once the options are read
WriteCopy ==
  /\ mode = "config"
  /\ reader.set /\ ~reader.val.exc
  /\ ~copy.set
  /\ copy' = Set(WriteToFile(reader.val.val))
  /\ UNCHANGED <<mode, buildVars, combineVars, runVars, mask_opens, config_file, reader, reread>>

\* OptionsReader(...) of the written file
ReadCopy ==
  /\ mode = "config"
  /\ copy.set
  /\ ~reread.set
  /\ reread' = Set(OptionsReader(copy.val))
  /\ UNCHANGED <<mode, buildVars, combineVars, runVars, mask_opens, config_file, reader, copy>>

NextConfig == ReadConfig \/ WriteCopy \/ ReadCopy

SpecConfig == InitConfig /\ [][NextConfig]_vars

\* ----------------------------------------- properties of the configuration
\* C22: once the file written by write_to_file has been read back, the read
\* has succeeded and has given the option values of the reader that wrote it.
C22_ConfigRoundTrip ==
  (mode = "config" /\ reread.set) =>
    /\ ~reread.val.exc
    /\ reread.val.val = reader.val.val

====
